---- MODULE Spec2Model ----
(***************************************************************************)
(* A model of stream.py: the AIQuestionGenerator gateway, the PDF text     *)
(* extraction helper and the Streamlit script that drives them.            *)
(*                                                                         *)
(* A Python str is a sequence of one-character strings, so that strip(),   *)
(* startswith(), slicing and json.loads() are computed character by        *)
(* character.  The body of a fixed diagnostic message is carried as one    *)
(* opaque element after the literal characters that precede it.            *)
(* os.getenv() returning None and an empty string are both the empty       *)
(* sequence/string: the code only ever tests them for truth.               *)
(***************************************************************************)
EXTENDS Integers, Sequences, FiniteSets, TLC

VARIABLES
    gen,      \* harness: the AIQuestionGenerator object under test
    pc,       \* harness: "idle" | "done" (an operation has just returned or raised)
    call,     \* harness: the operation just run, its arguments, the upstream behaviour, its outcome
    environ,  \* app: os.environ["GEMINI_API_KEY"] ("" when unset)
    widgets,  \* app: the browser-side widget values (key input, uploaded file, job description)
    session,  \* app: st.session_state
    rerun     \* app: what the last script run did (event, calls issued, whether it aborted)

vars == <<gen, pc, call, environ, widgets, session, rerun>>

----------------------------------------------------------------------------
(* Python str helpers *)

Whitespace == {" ", "\n", "\t", "\r"}

RECURSIVE LStrip(_)
LStrip(s) == IF s # <<>> /\ Head(s) \in Whitespace THEN LStrip(Tail(s)) ELSE s

RECURSIVE RStrip(_)
RStrip(s) ==
    IF s # <<>> /\ s[Len(s)] \in Whitespace THEN RStrip(SubSeq(s, 1, Len(s) - 1)) ELSE s

\* str.strip()
Strip(s) == RStrip(LStrip(s))

\* str.startswith(p) / str.endswith(p)
StartsWith(s, p) == Len(s) >= Len(p) /\ SubSeq(s, 1, Len(p)) = p
EndsWith(s, p) == Len(s) >= Len(p) /\ SubSeq(s, Len(s) - Len(p) + 1, Len(s)) = p

\* s[n:] and s[:-n]
DropFirst(s, n) == IF n >= Len(s) THEN <<>> ELSE SubSeq(s, n + 1, Len(s))
DropLast(s, n) == IF n >= Len(s) THEN <<>> ELSE SubSeq(s, 1, Len(s) - n)

RECURSIVE Concat(_)
Concat(ss) == IF ss = <<>> THEN <<>> ELSE Head(ss) \o Concat(Tail(ss))

----------------------------------------------------------------------------
(* Values: what json.loads() returns and what the gateway puts in its      *)
(* result.  One record shape for every value, tagged by t:                 *)
(*   "null" | "true" | "false"                                             *)
(*   "str"   s = the characters                                            *)
(*   "arr"   items = the elements (a Python list)                          *)
(*   "obj"   items = the members, each a "pair" (a Python dict)            *)
(*   "pair"  s = the key's characters, items = <<value>>                   *)

JVal(t, s, items) == [t |-> t, s |-> s, items |-> items]
JNull == JVal("null", <<>>, <<>>)
JTrue == JVal("true", <<>>, <<>>)
JFalse == JVal("false", <<>>, <<>>)
JStr(s) == JVal("str", s, <<>>)
JArr(items) == JVal("arr", <<>>, items)
JObj(members) == JVal("obj", <<>>, members)
JPair(k, v) == JVal("pair", k, <<v>>)

(* json.loads on the JSON subset without numbers and without backslash     *)
(* escapes (the upstream texts of this model hold neither).  A result is   *)
(* [ok, v, i]: i is the index after the value; ok = FALSE is               *)
(* json.JSONDecodeError.                                                   *)

ParseFail == [ok |-> FALSE, v |-> JNull, i |-> 0]
ParseOk(v, i) == [ok |-> TRUE, v |-> v, i |-> i]

RECURSIVE SkipWS(_, _)
SkipWS(s, i) == IF i <= Len(s) /\ s[i] \in Whitespace THEN SkipWS(s, i + 1) ELSE i

\* the index of the quote closing a string whose body starts at i, or 0:
\* strict mode rejects a control character inside a string
RECURSIVE StringEnd(_, _)
StringEnd(s, i) ==
    IF i > Len(s) THEN 0
    ELSE IF s[i] = "\"" THEN i
    ELSE IF s[i] \in {"\n", "\t", "\r"} THEN 0
    ELSE StringEnd(s, i + 1)

ParseString(s, i) ==
    LET e == StringEnd(s, i + 1)
    IN  IF e = 0 THEN ParseFail ELSE ParseOk(JStr(SubSeq(s, i + 1, e - 1)), e + 1)

ParseLiteral(s, i, word, v) ==
    IF i + Len(word) - 1 <= Len(s) /\ SubSeq(s, i, i + Len(word) - 1) = word
    THEN ParseOk(v, i + Len(word))
    ELSE ParseFail

RECURSIVE ParseValue(_, _)
RECURSIVE ParseElements(_, _, _)
RECURSIVE ParseMembers(_, _, _)

\* one value starting at i (whitespace before it already skipped)
ParseValue(s, i) ==
    IF i > Len(s) THEN ParseFail
    ELSE CASE s[i] = "{" ->
                LET j == SkipWS(s, i + 1)
                IN  IF j <= Len(s) /\ s[j] = "}" THEN ParseOk(JObj(<<>>), j + 1)
                    ELSE ParseMembers(s, j, <<>>)
           [] s[i] = "[" ->
                LET j == SkipWS(s, i + 1)
                IN  IF j <= Len(s) /\ s[j] = "]" THEN ParseOk(JArr(<<>>), j + 1)
                    ELSE ParseElements(s, j, <<>>)
           [] s[i] = "\"" -> ParseString(s, i)
           [] s[i] = "n" -> ParseLiteral(s, i, <<"n", "u", "l", "l">>, JNull)
           [] s[i] = "t" -> ParseLiteral(s, i, <<"t", "r", "u", "e">>, JTrue)
           [] s[i] = "f" -> ParseLiteral(s, i, <<"f", "a", "l", "s", "e">>, JFalse)
           [] OTHER -> ParseFail

\* the elements of an array from i on, up to and including the "]"
ParseElements(s, i, acc) ==
    LET r == ParseValue(s, i)
    IN  IF ~r.ok THEN ParseFail
        ELSE LET j == SkipWS(s, r.i)
             IN  IF j > Len(s) THEN ParseFail
                 ELSE IF s[j] = "," THEN ParseElements(s, SkipWS(s, j + 1), Append(acc, r.v))
                 ELSE IF s[j] = "]" THEN ParseOk(JArr(Append(acc, r.v)), j + 1)
                 ELSE ParseFail

\* the members of an object from i on, up to and including the "}"
ParseMembers(s, i, acc) ==
    IF i > Len(s) \/ s[i] # "\"" THEN ParseFail
    ELSE LET k == ParseString(s, i)
         IN  IF ~k.ok THEN ParseFail
             ELSE LET c == SkipWS(s, k.i)
                  IN  IF c > Len(s) \/ s[c] # ":" THEN ParseFail
                      ELSE LET r == ParseValue(s, SkipWS(s, c + 1))
                           IN  IF ~r.ok THEN ParseFail
                               ELSE LET j == SkipWS(s, r.i)
                                        m == Append(acc, JPair(k.v.s, r.v))
                                    IN  IF j > Len(s) THEN ParseFail
                                        ELSE IF s[j] = "," THEN ParseMembers(s, SkipWS(s, j + 1), m)
                                        ELSE IF s[j] = "}" THEN ParseOk(JObj(m), j + 1)
                                        ELSE ParseFail

\* json.loads(s): one value, whitespace around it, nothing after it
JsonLoads(s) ==
    LET r == ParseValue(s, SkipWS(s, 1))
    IN  IF ~r.ok THEN ParseFail
        ELSE IF SkipWS(s, r.i) = Len(s) + 1 THEN r
        ELSE ParseFail

\* dict[key] with None for a missing key: what data.get(key) without the
\* second argument would give
DictGetNoDefault(members, key, default) ==
    LET hits == {k \in 1..Len(members) : members[k].s = key}
    IN  IF hits = {} THEN JNull
        ELSE members[CHOOSE k \in hits : \A j \in hits : j <= k].items[1]

\* dict.get(key, default): the last member with that key wins, as in a dict
\* built by json.loads from repeated keys
RECURSIVE DictGet(_, _, _)
DictGet(members, key, default) ==
    IF members = <<>> THEN default
    ELSE LET last == members[Len(members)]
         IN  IF last.s = key THEN last.items[1]
             ELSE DictGet(SubSeq(members, 1, Len(members) - 1), key, default)

----------------------------------------------------------------------------
(* Literals of the source *)

\* finish reason STOP (line 140-141) and the reason_map of line 142
STOP == 1

ReasonMap(v) ==
    CASE v = 0 -> "UNSPECIFIED"
      [] v = 1 -> "STOP"
      [] v = 2 -> "MAX_TOKENS"
      [] v = 3 -> "SAFETY"
      [] v = 4 -> "RECITATION"
      [] v = 5 -> "OTHER"
      [] OTHER -> "UNKNOWN (" \o ToString(v) \o ")"

\* the opening fence with generated_text[7:], the closing fence with generated_text[:-3]
\* (a TLA+ string cannot hold the grave accent: Grave is that one character)
Grave == "GRAVE"
FenceOpen == <<Grave, Grave, Grave, "j", "s", "o", "n">>
FenceOpenLen == 7
FenceClose == <<Grave, Grave, Grave>>
FenceCloseLen == 3

\* the four keys of the result
KTechnical == <<"t", "e", "c", "h", "n", "i", "c", "a", "l">>
KBehavioral == <<"b", "e", "h", "a", "v", "i", "o", "r", "a", "l">>
KProjectSpecific == <<"p", "r", "o", "j", "e", "c", "t", "_", "s", "p", "e", "c", "i", "f", "i", "c">>
KScenarioBased == <<"s", "c", "e", "n", "a", "r", "i", "o", "_", "b", "a", "s", "e", "d">>

\* f"Error: {final_error_msg}" and the marker the script looks for
ErrorPrefix == <<"E", "r", "r", "o", "r", ":", " ">>
ErrorMarker == <<"E", "r", "r", "o", "r", ":">>

\* the placeholder the script stores in current_answer while it asks
Loading == <<"l", "o", "a", "d", "i", "n", "g">>

DefaultModelName == "gemini-1.5-flash-latest"

----------------------------------------------------------------------------
(* AIQuestionGenerator *)

\* AIQuestionGenerator(): key is os.getenv("GEMINI_API_KEY"); fault says where
\* the try block of lines 25-32 raises: "none", "configure" (genai.configure,
\* line 26), "model" (genai.GenerativeModel, line 28) or "report" (the
\* st.sidebar.success of line 31, after the client is stored)
NewAIQuestionGenerator(key, fault) ==
    IF key # ""
    THEN IF fault = "none"
         THEN [gemini_api_key |-> key, client |-> TRUE,
               model_name |-> DefaultModelName, is_configured |-> TRUE]
         ELSE [gemini_api_key |-> key, client |-> fault = "report",
               model_name |-> IF fault = "configure" THEN "" ELSE DefaultModelName,
               is_configured |-> FALSE]
    ELSE [gemini_api_key |-> key, client |-> FALSE, model_name |-> "",
          is_configured |-> FALSE]

\* what the constructor shows in the sidebar
InitMessage(key, fault) ==
    IF key = "" THEN "warning" ELSE IF fault = "none" THEN "success" ELSE "error"

\* an operation's outcome: ret is "return" or "raise"; value what it returns;
\* prompts the prompts given to client.generate_content, in order; ui the
\* st.error / st.warning calls, in order; cause the return statement taken
Outcome(ret, value, prompts, ui, cause) ==
    [ret |-> ret, value |-> value, prompts |-> prompts, ui |-> ui, cause |-> cause]

\* a guard that looks at the client alone
NotReadyClientOnly(self) == ~self.client

\* the guard of lines 50 and 205
NotReady(self) == ~self.client \/ ~self.is_configured

\* the dict _return_error_structure builds
ErrorStructure(final_error_msg) ==
    [technical |-> JArr(<<JStr(ErrorPrefix \o <<final_error_msg>>)>>),
     behavioral |-> JArr(<<>>),
     project_specific |-> JArr(<<>>),
     scenario_based |-> JArr(<<>>)]

\* _return_error_structure(error_message_for_ui, error_message_for_dict)
\* as the outcome of the operation that returns it
ReturnErrorStructure(error_message_for_ui, error_message_for_dict, prompts, ui, cause) ==
    LET final_error_msg ==
            IF error_message_for_dict # "" THEN error_message_for_dict
            ELSE error_message_for_ui
    IN  Outcome("return", ErrorStructure(final_error_msg), prompts,
                Append(ui, "error"), cause)

\* lines 56-62: the job description section of the prompt
PlaceholderSection == <<"No job description provided.">>

JobDescriptionSection(job_description_text) ==
    IF job_description_text # <<>> /\ Strip(job_description_text) # <<>>
    THEN job_description_text
    ELSE PlaceholderSection

\* lines 64-119: the prompt, by what it embeds
QuestionsPrompt(resume_text_content, job_description_text) ==
    [kind |-> "questions", primary |-> resume_text_content,
     section |-> JobDescriptionSection(job_description_text)]

\* lines 210-217
AnswerPrompt(question_text) ==
    [kind |-> "answer", primary |-> question_text, section |-> <<>>]

\* any(p.text for p in candidate.content.parts if hasattr(p, 'text'))
AnyPartText(parts) == \E k \in 1..Len(parts) : parts[k].has_text /\ parts[k].text # <<>>

\* "".join(part.text for part in parts if hasattr(part, 'text') and part.text)
RECURSIVE JoinPartTexts(_)
JoinPartTexts(parts) ==
    IF parts = <<>> THEN <<>>
    ELSE (IF Head(parts).has_text /\ Head(parts).text # <<>> THEN Head(parts).text ELSE <<>>)
         \o JoinPartTexts(Tail(parts))

\* candidate.content and candidate.content.parts
HasParts(candidate) == candidate.content.present /\ candidate.content.parts # <<>>

\* candidates[-1]
LastCandidate(candidates) == candidates[Len(candidates)]

\* line 139: the candidate the gateway looks at
InspectedCandidate(candidates) == candidates[1]

\* a gateway that uses partial content silently
NoWarning(atypical, usable) == <<>>

\* lines 155-156: the warning of a partial success
PartialWarning(atypical, usable) == IF atypical /\ usable THEN <<"warning">> ELSE <<>>

\* trimming and lines 172-173 alone: the closing marker is left in place
StripOpenFenceOnly(generated_text) ==
    LET t == Strip(generated_text)
    IN  IF StartsWith(t, FenceOpen) THEN DropFirst(t, FenceOpenLen) ELSE t

\* lines 171-175
StripFences(generated_text) ==
    LET t == Strip(generated_text)
        a == IF StartsWith(t, FenceOpen) THEN DropFirst(t, FenceOpenLen) ELSE t
    IN  IF EndsWith(a, FenceClose) THEN DropLast(a, FenceCloseLen) ELSE a

\* lines 179-184
FourKeys(members) ==
    [technical |-> DictGet(members, KTechnical, JArr(<<>>)),
     behavioral |-> DictGet(members, KBehavioral, JArr(<<>>)),
     project_specific |-> DictGet(members, KProjectSpecific, JArr(<<>>)),
     scenario_based |-> DictGet(members, KScenarioBased, JArr(<<>>))]

\* the exceptions the try block of generate_questions_from_text raises itself
JSONDecodeError == [type |-> "JSONDecodeError", has_message |-> FALSE, has_code |-> FALSE]
AttributeError == [type |-> "AttributeError", has_message |-> FALSE, has_code |-> FALSE]

\* lines 186-202: the except clauses, in order.  The second reads ge.message
\* and ge.code; an exception raised inside a handler is not caught by the
\* clauses after it.
QuestionsExcept(exc, prompts, ui) ==
    CASE exc.type = "JSONDecodeError" ->
            ReturnErrorStructure("Error decoding JSON from AI response: <je>.",
                                 "Malformed JSON from API: <je>", prompts, ui,
                                 "malformed_json")
      [] exc.type = "GoogleAPIError" ->
            IF exc.has_message /\ exc.has_code
            THEN ReturnErrorStructure("Gemini API Error: <message> (Code: <code>)",
                                      "Gemini API Error: <message>", prompts, ui,
                                      "google_api_error")
            ELSE Outcome("raise", AttributeError, prompts, ui, "handler_raised")
      [] OTHER ->
            ReturnErrorStructure("An unexpected error occurred during question generation: <e>",
                                 "Unexpected error: <e>", prompts, ui, "unexpected")

\* lines 125-184: what the try block does with the response
QuestionsTry(response, prompts) ==
    LET fb == response.prompt_feedback
    IN  IF fb.present /\ fb.block_reason # ""
        THEN ReturnErrorStructure(
                 "Gemini API blocked the prompt. Reason: " \o fb.block_reason \o ".",
                 "Prompt blocked by safety settings (Reason: " \o fb.block_reason \o ").",
                 prompts, <<>>, "prompt_blocked")
        ELSE IF response.candidates = <<>>
        THEN ReturnErrorStructure("Gemini API returned no candidates in the response.",
                                  "No candidates in API response.", prompts, <<>>,
                                  "no_candidates")
        ELSE
        LET candidate == InspectedCandidate(response.candidates)
            atypical == candidate.finish_reason # STOP
            reason_str == ReasonMap(candidate.finish_reason)
            error_detail_ui ==
                "Gemini API request finished atypically. Reason: " \o reason_str \o "."
            error_detail_dict ==
                "API request finished: " \o reason_str \o "."
                \o (IF candidate.safety_ratings THEN " Check safety ratings." ELSE "")
            usable == HasParts(candidate) /\ AnyPartText(candidate.content.parts)
            ui == PartialWarning(atypical, usable)
            generated_text ==
                IF HasParts(candidate) THEN JoinPartTexts(candidate.content.parts) ELSE <<>>
        IN  IF atypical /\ ~usable
            THEN ReturnErrorStructure(error_detail_ui, error_detail_dict, prompts, <<>>,
                                      "atypical")
            ELSE IF Strip(generated_text) = <<>>
            THEN ReturnErrorStructure("Gemini API returned empty text content.",
                                      "Empty text content from API.", prompts, ui,
                                      "empty_text")
            ELSE LET questions == JsonLoads(StripFences(generated_text))
                 IN  IF ~questions.ok THEN QuestionsExcept(JSONDecodeError, prompts, ui)
                     ELSE IF questions.v.t # "obj"
                     THEN QuestionsExcept(AttributeError, prompts, ui)
                     ELSE Outcome("return", FourKeys(questions.v.items), prompts, ui,
                                  "success")

\* generate_questions_from_text(resume_text_content, job_description_text);
\* upstream is what client.generate_content does when called: it raises
\* upstream.exc or returns upstream.response
GenerateQuestionsFromText(self, resume_text_content, job_description_text, upstream) ==
    IF NotReady(self)
    THEN ReturnErrorStructure("Gemini client not configured. Please check API key.",
                              "Gemini client not configured.", <<>>, <<>>,
                              "not_configured")
    ELSE LET prompts == <<QuestionsPrompt(resume_text_content, job_description_text)>>
         IN  IF upstream.raises THEN QuestionsExcept(upstream.exc, prompts, <<>>)
             ELSE QuestionsTry(upstream.response, prompts)

\* lines 219-236
AnswerTry(response, prompts) ==
    LET fb == response.prompt_feedback
    IN  IF fb.present /\ fb.block_reason # ""
        THEN Outcome("return",
                     <<"Answer generation blocked by Gemini. Reason: " \o fb.block_reason>>,
                     prompts, <<>>, "prompt_blocked")
        ELSE IF response.candidates = <<>>
        THEN Outcome("return", <<"Gemini returned no candidates for the answer.">>,
                     prompts, <<>>, "no_candidates")
        ELSE
        LET candidate == InspectedCandidate(response.candidates)
        IN  IF candidate.finish_reason # STOP
            THEN Outcome("return",
                         <<"Answer generation finished atypically. Reason: "
                           \o ToString(candidate.finish_reason)>>,
                         prompts, <<>>, "atypical")
            ELSE IF HasParts(candidate)
            THEN Outcome("return", Strip(JoinPartTexts(candidate.content.parts)),
                         prompts, <<>>, "text")
            ELSE Outcome("return",
                         <<"No text content found in Gemini response for the answer.">>,
                         prompts, <<>>, "no_text")

\* generate_answer_for_question(question_text)
GenerateAnswerForQuestion(self, question_text, upstream) ==
    IF NotReady(self)
    THEN Outcome("return", <<"Gemini client not configured. Cannot generate answer.">>,
                 <<>>, <<>>, "not_configured")
    ELSE IF question_text = <<>>
    THEN Outcome("return", <<"No question provided to generate an answer.">>,
                 <<>>, <<>>, "no_question")
    ELSE LET prompts == <<AnswerPrompt(question_text)>>
         IN  IF upstream.raises
             THEN Outcome("return", <<"Error generating answer: <e>">>, prompts,
                          <<"error">>, "exception")
             ELSE AnswerTry(upstream.response, prompts)

----------------------------------------------------------------------------
(* extract_text_from_pdf_bytes: pdf says what fitz does with the bytes:     *)
(* whether fitz.open succeeds, and for each page its text, or a fault      *)

RECURSIVE PagesText(_)
PagesText(pages) ==
    IF pages = <<>> THEN [ok |-> TRUE, text |-> <<>>]
    ELSE IF ~Head(pages).ok THEN [ok |-> FALSE, text |-> <<>>]
    ELSE LET rest == PagesText(Tail(pages))
         IN  [ok |-> rest.ok, text |-> IF rest.ok THEN Head(pages).text \o rest.text ELSE <<>>]

\* the value is [none, text]: None, or the text
ExtractTextFromPdfBytes(pdf) ==
    LET r == IF pdf.opens THEN PagesText(pdf.pages) ELSE [ok |-> FALSE, text |-> <<>>]
    IN  IF r.ok
        THEN Outcome("return", [none |-> FALSE, text |-> r.text], <<>>, <<>>, "text")
        ELSE Outcome("return", [none |-> TRUE, text |-> <<>>], <<>>, <<"error">>, "failed")

----------------------------------------------------------------------------
(* What the generation service may send back *)

\* json.dumps-like text of a value; ws is put after every "," and ":"
RECURSIVE Encode(_, _)
RECURSIVE EncodeItems(_, _)
Encode(v, ws) ==
    CASE v.t = "null" -> <<"n", "u", "l", "l">>
      [] v.t = "true" -> <<"t", "r", "u", "e">>
      [] v.t = "false" -> <<"f", "a", "l", "s", "e">>
      [] v.t = "str" -> <<"\"">> \o v.s \o <<"\"">>
      [] v.t = "arr" -> <<"[">> \o EncodeItems(v.items, ws) \o <<"]">>
      [] v.t = "obj" -> <<"{">> \o EncodeItems(v.items, ws) \o <<"}">>
      [] v.t = "pair" -> <<"\"">> \o v.s \o <<"\"", ":">> \o ws \o Encode(v.items[1], ws)

EncodeItems(items, ws) ==
    IF items = <<>> THEN <<>>
    ELSE IF Len(items) = 1 THEN Encode(items[1], ws)
    ELSE Encode(items[1], ws) \o <<",">> \o ws \o EncodeItems(Tail(items), ws)

Question(n) == <<"Q", n>>

PayloadIds ==
    {"full", "missing", "extra", "repeated", "empty_obj", "null_value", "array", "string",
     "prose", "loading"}

ObjectPayloadIds == {"full", "missing", "extra", "repeated", "empty_obj", "null_value"}

\* payloads that are plain text, not JSON
PlainPayloadIds == {"prose", "loading"}

\* the JSON value the service was asked for, or something else
Payload(id) ==
    CASE id = "full" ->
            JObj(<<JPair(KTechnical, JArr(<<JStr(Question("1")), JStr(Question("2"))>>)),
                   JPair(KBehavioral, JArr(<<JStr(Question("3"))>>)),
                   JPair(KProjectSpecific, JArr(<<JStr(Question("4"))>>)),
                   JPair(KScenarioBased, JArr(<<JStr(Question("5"))>>))>>)
      [] id = "missing" ->
            JObj(<<JPair(KBehavioral, JArr(<<JStr(Question("2")), JStr(Question("1"))>>))>>)
      [] id = "extra" ->
            JObj(<<JPair(<<"n", "o", "t", "e">>, JStr(<<"x">>)),
                   JPair(KTechnical, JArr(<<JStr(Question("1"))>>))>>)
      [] id = "repeated" ->
            JObj(<<JPair(KTechnical, JArr(<<JStr(Question("1")), JStr(Question("1"))>>)),
                   JPair(KBehavioral, JArr(<<JStr(Question("1"))>>))>>)
      [] id = "empty_obj" -> JObj(<<>>)
      [] id = "null_value" -> JObj(<<JPair(KScenarioBased, JNull)>>)
      [] id = "array" -> JArr(<<JStr(Question("1"))>>)
      [] id = "string" -> JStr(Question("1"))
      [] id = "prose" -> JStr(<<"S", "u", "r", "e">>)
      [] id = "loading" -> JStr(Loading)

Styles == {"compact", "spaced", "fenced", "truncated"}
WellFormedStyles == {"compact", "spaced", "fenced"}

\* other ways of fencing: no line breaks inside the fence, one marker alone,
\* two fences around the text; written for these payloads
FenceStyles == {"tight", "open_only", "close_only", "twice"}
FencePayloadIds == {"full", "empty_obj"}

\* the text the service writes for a payload
Render(id, style) ==
    IF id \in PlainPayloadIds THEN Payload(id).s
    ELSE CASE style = "compact" -> Encode(Payload(id), <<>>)
           [] style = "spaced" -> <<"\n">> \o Encode(Payload(id), <<" ">>) \o <<" ", "\n">>
           [] style = "fenced" ->
                FenceOpen \o <<"\n">> \o Encode(Payload(id), <<>>) \o <<"\n">> \o FenceClose
           [] style = "truncated" -> DropLast(Encode(Payload(id), <<>>), 1)
           [] style = "tight" -> FenceOpen \o Encode(Payload(id), <<>>) \o FenceClose
           [] style = "open_only" -> FenceOpen \o <<"\n">> \o Encode(Payload(id), <<>>)
           [] style = "close_only" -> Encode(Payload(id), <<>>) \o <<"\n">> \o FenceClose
           [] style = "twice" ->
                FenceOpen \o FenceOpen \o Encode(Payload(id), <<>>)
                    \o FenceClose \o FenceClose

\* a content part: "N" has no text attribute, "E" an empty text, "B" a blank
\* text, "P" carries the payload's text
MkPart(kind, text) ==
    CASE kind = "N" -> [has_text |-> FALSE, text |-> <<>>]
      [] kind = "E" -> [has_text |-> TRUE, text |-> <<>>]
      [] kind = "B" -> [has_text |-> TRUE, text |-> <<" ", "\n">>]
      [] kind = "P" -> [has_text |-> TRUE, text |-> text]

Shapes ==
    {<<>>, <<"N">>, <<"E">>, <<"B">>, <<"N", "B">>,
     <<"P">>, <<"P", "N">>, <<"E", "P">>, <<"B", "P", "B">>, <<"P", "P">>}

HasPayload(shape) == \E k \in 1..Len(shape) : shape[k] = "P"

MaxFinishReason == 6
MaxCandidates == 2

Feedbacks ==
    {[present |-> FALSE, block_reason |-> ""],
     [present |-> TRUE, block_reason |-> ""],
     [present |-> TRUE, block_reason |-> "SAFETY"]}

\* GoogleAPICallError carries message and code, RetryError a message only,
\* other GoogleAPIError subclasses neither; and any other exception
Exceptions ==
    {[type |-> "GoogleAPIError", has_message |-> TRUE, has_code |-> TRUE],
     [type |-> "GoogleAPIError", has_message |-> TRUE, has_code |-> FALSE],
     [type |-> "GoogleAPIError", has_message |-> FALSE, has_code |-> FALSE],
     [type |-> "Exception", has_message |-> FALSE, has_code |-> FALSE]}

NoException == [type |-> "none", has_message |-> FALSE, has_code |-> FALSE]

\* the descriptors of the upstream behaviours of the model
Descriptor(raises, exc, feedback, ncand, finish, ratings, present, shape, payload, style) ==
    [raises |-> raises, exc |-> exc, feedback |-> feedback, ncand |-> ncand,
     finish |-> finish, ratings |-> ratings, present |-> present, shape |-> shape,
     payload |-> payload, style |-> style]

Contents ==
    {<<FALSE, <<>>, "prose", "compact">>}
    \cup {<<TRUE, sh, "prose", "compact">> : sh \in Shapes}
    \cup {<<TRUE, sh, "loading", "compact">> : sh \in {s \in Shapes : HasPayload(s)}}
    \cup {<<TRUE, sh, c[1], c[2]>> :
            sh \in {s \in Shapes : HasPayload(s)},
            c \in ((PayloadIds \ PlainPayloadIds) \X Styles)
                    \cup (FencePayloadIds \X FenceStyles)}

Raising ==
    {Descriptor(TRUE, e, [present |-> FALSE, block_reason |-> ""], 0, STOP, FALSE,
                FALSE, <<>>, "prose", "compact") : e \in Exceptions}

Responding ==
    {Descriptor(FALSE, NoException, fb, 0, STOP, FALSE, FALSE, <<>>, "prose", "compact") :
        fb \in Feedbacks}
    \cup {Descriptor(FALSE, NoException, fb, n, f, r, c[1], c[2], c[3], c[4]) :
            fb \in Feedbacks, n \in 1..MaxCandidates, f \in 0..MaxFinishReason,
            r \in BOOLEAN, c \in Contents}

Upstreams == Raising \cup Responding

RECURSIVE MkParts(_, _)
MkParts(shape, text) ==
    IF shape = <<>> THEN <<>> ELSE <<MkPart(Head(shape), text)>> \o MkParts(Tail(shape), text)

\* candidates after the first: finished normally, with a well-formed payload
DecoyCandidate ==
    [finish_reason |-> STOP, safety_ratings |-> FALSE,
     content |-> [present |-> TRUE,
                  parts |-> <<MkPart("P", Encode(JObj(<<JPair(KTechnical,
                                      JArr(<<JStr(<<"D">>)>>))>>), <<>>))>>]]

FirstCandidate(d) ==
    [finish_reason |-> d.finish, safety_ratings |-> d.ratings,
     content |-> [present |-> d.present,
                  parts |-> MkParts(d.shape, Render(d.payload, d.style))]]

\* the response object of a descriptor
Response(d) ==
    [prompt_feedback |-> d.feedback,
     candidates |-> IF d.ncand = 0 THEN <<>>
                    ELSE <<FirstCandidate(d)>> \o [k \in 1..(d.ncand - 1) |-> DecoyCandidate]]

\* what client.generate_content does, for a descriptor
Upstream(d) ==
    [raises |-> d.raises, exc |-> d.exc,
     response |-> IF d.raises THEN [prompt_feedback |-> d.feedback, candidates |-> <<>>]
                  ELSE Response(d)]

----------------------------------------------------------------------------
(* The gateway and the adapter, operation by operation: each action is one  *)
(* call by a caller, Return hands control back.                            *)

Keys == {"", "k1"}
Faults == {"none", "configure", "model", "report"}
ResumeTexts == {<<>>, <<"r">>}
JobDescriptions == {<<>>, <<" ">>, <<"j">>}
QuestionTexts == {<<>>, Question("1")}
Pdfs ==
    {[opens |-> FALSE, pages |-> <<>>],
     [opens |-> TRUE, pages |-> <<>>],
     [opens |-> TRUE, pages |-> <<[ok |-> TRUE, text |-> <<"r">>]>>],
     [opens |-> TRUE, pages |-> <<[ok |-> TRUE, text |-> <<"r">>], [ok |-> TRUE, text |-> <<"s">>]>>],
     [opens |-> TRUE, pages |-> <<[ok |-> TRUE, text |-> <<"r">>], [ok |-> FALSE, text |-> <<>>]>>]}

IdleDescriptor ==
    Descriptor(FALSE, NoException, [present |-> FALSE, block_reason |-> ""], 0, STOP,
               FALSE, FALSE, <<>>, "prose", "compact")

----------------------------------------------------------------------------
(* The Streamlit script, lines 251-395.  Every user event reruns the whole  *)
(* script against st.session_state.                                        *)

\* a key of st.session_state that may be missing, with its value
Opt(present, v) == [present |-> present, v |-> v]

NoGenerator == Opt(FALSE, NewAIQuestionGenerator("", "none"))
NoPdf == [opens |-> FALSE, pages |-> <<>>]
NoFile == [present |-> FALSE, name |-> "", pdf |-> NoPdf]
NoQuestions == Opt(FALSE, FourKeys(<<>>))

\* questions_source is no key of st.session_state: it records the
\* resume_text_content the stored generated_questions were asked for
EmptySession ==
    [has_key |-> FALSE, gemini_api_key |-> "",
     ai_question_gen |-> NoGenerator,
     resume_filename |-> Opt(FALSE, ""),
     resume_bytes |-> NoPdf,
     resume_text |-> [none |-> TRUE, text |-> <<>>],
     generated_questions |-> NoQuestions,
     questions_source |-> Opt(FALSE, <<>>),
     current_question_to_answer |-> Opt(FALSE, JNull),
     current_answer |-> Opt(FALSE, <<>>)]

\* lines 258-289: the sidebar block.  typed is the content of the key input
\* when the user has edited it; the input shows its value argument otherwise.
Sidebar(s, env, typed, fault) ==
    LET initial == IF s.has_key THEN s.gemini_api_key ELSE env
        key == IF typed.present THEN typed.v ELSE initial
        env1 == IF key # "" THEN key ELSE env
        g == s.ai_question_gen
        reinitialize_ai_gen ==
            ~g.present \/ g.v.gemini_api_key # env1 \/ ~g.v.is_configured
        g1 == IF reinitialize_ai_gen
              THEN IF env1 # "" THEN Opt(TRUE, NewAIQuestionGenerator(env1, fault))
                   ELSE NoGenerator
              ELSE g
    IN  [session |-> [s EXCEPT !.has_key = TRUE, !.gemini_api_key = key,
                               !.ai_question_gen = g1],
         environ |-> env1,
         constructed |-> reinitialize_ai_gen /\ env1 # ""]

\* lines 294-301: a file whose name is not the stored one is read anew
UploadBlock(s, file) ==
    IF file.present /\ (~s.resume_filename.present \/ s.resume_filename.v # file.name)
    THEN [s EXCEPT !.resume_filename = Opt(TRUE, file.name),
                   !.resume_bytes = file.pdf,
                   !.resume_text = ExtractTextFromPdfBytes(file.pdf).value,
                   !.generated_questions = NoQuestions,
                   !.questions_source = Opt(FALSE, <<>>),
                   !.current_question_to_answer = Opt(FALSE, JNull),
                   !.current_answer = Opt(FALSE, <<>>)]
    ELSE s

\* the truth value of a Python value
Truthy(v) ==
    CASE v.t \in {"null", "false"} -> FALSE
      [] v.t = "true" -> TRUE
      [] v.t = "str" -> v.s # <<>>
      [] OTHER -> v.items # <<>>

\* isinstance(q, str) and q.startswith("Error:")
IsErrorString(q) == q.t = "str" /\ StartsWith(q.s, ErrorMarker)

\* lines 314-346: the Generate button's handler.  The script aborts when
\* generate_questions_from_text raises, and at line 332 when the first
\* technical entry is no string.
GenerateBlock(s, clicked, job_description, upstream) ==
    LET g == s.ai_question_gen
        idle == [session |-> s, prompts |-> <<>>, crashed |-> FALSE]
    IN  IF ~clicked THEN idle
        ELSE IF ~g.present \/ ~g.v.is_configured THEN idle
        ELSE IF ~s.resume_text.none /\ s.resume_text.text # <<>>
        THEN CHOOSE gb \in
                {IF out.ret = "raise"
                 THEN [session |-> s, prompts |-> out.prompts, crashed |-> TRUE]
                 ELSE [session |-> [s EXCEPT !.generated_questions = Opt(TRUE, out.value),
                                             !.questions_source =
                                                 Opt(TRUE, s.resume_text.text),
                                             !.current_question_to_answer = Opt(FALSE, JNull),
                                             !.current_answer = Opt(FALSE, <<>>)],
                       prompts |-> out.prompts,
                       crashed |-> /\ out.value.technical.t = "arr"
                                   /\ out.value.technical.items # <<>>
                                   /\ out.value.technical.items[1].t # "str"] :
                    out \in {GenerateQuestionsFromText(g.v, s.resume_text.text,
                                                       job_description, upstream)}} : TRUE
        ELSE idle

\* lines 351-356: the order of the categories on the page
CategoryOrder == <<"technical", "project_specific", "behavioral", "scenario_based">>

\* lines 362-372: the questions of a category that get a Get Answer button,
\* with their index in the list (the lists this model stores are lists)
RECURSIVE ButtonRows(_, _, _)
ButtonRows(cat, list, i) ==
    IF i > Len(list) THEN <<>>
    ELSE (IF IsErrorString(list[i]) THEN <<>>
          ELSE <<[cat |-> cat, i |-> i, question |-> list[i]]>>)
         \o ButtonRows(cat, list, i + 1)

CategoryRows(q_data, cat) ==
    LET v == q_data[cat]
    IN  IF ~Truthy(v) \/ v.t # "arr" THEN <<>>
        ELSE IF Len(v.items) = 1 /\ IsErrorString(v.items[1]) THEN <<>>
        ELSE ButtonRows(cat, v.items, 1)

\* lines 348-392: every row the loops visit, in order
Rows(s) ==
    IF ~s.generated_questions.present THEN <<>>
    ELSE Concat([k \in 1..Len(CategoryOrder) |->
                    CategoryRows(s.generated_questions.v, CategoryOrder[k])])

\* lines 379-387 for one row.  st carries current_question_to_answer (cq),
\* current_answer (ca), the prompts sent and the buttons drawn so far, and
\* whether the script has aborted (st.session_state.ai_question_gen missing at
\* line 386).  The k-th call of generate_answer_for_question gets upstreams[k].
RenderRow(row, st, g, clicked, upstreams) ==
    LET pressed == clicked = <<row.cat, row.i>>
        cq == IF pressed THEN Opt(TRUE, row.question) ELSE st.cq
        ca == IF pressed THEN Opt(TRUE, Loading) ELSE st.ca
        shown == cq.present /\ cq.v = row.question
        asks == shown /\ ca.present /\ ca.v = Loading
        k == IF Len(st.prompts) < Len(upstreams) THEN Len(st.prompts) + 1 ELSE Len(upstreams)
        drawn == st.buttons \cup {<<row.cat, row.i>>}
    IN  IF asks /\ ~g.present
        THEN [cq |-> cq, ca |-> ca, prompts |-> st.prompts, buttons |-> drawn,
              crashed |-> TRUE]
        ELSE IF asks
        THEN CHOOSE next \in
                {[cq |-> cq, ca |-> Opt(TRUE, out.value),
                  prompts |-> st.prompts \o out.prompts, buttons |-> drawn,
                  crashed |-> FALSE] :
                    out \in {GenerateAnswerForQuestion(self, row.question.s, upstream) :
                                self \in {g.v}, upstream \in {Upstream(upstreams[k])}}} : TRUE
        ELSE [cq |-> cq, ca |-> ca, prompts |-> st.prompts, buttons |-> drawn,
              crashed |-> shown /\ ~ca.present]

\* the loops of lines 358-392 over the rows, until the script aborts
RECURSIVE RenderRows(_, _, _, _, _)
RenderRows(rows, st, g, clicked, upstreams) ==
    IF rows = <<>> \/ st.crashed THEN st
    ELSE CHOOSE last \in
            UNION {{RenderRows(rest, next, g, clicked, upstreams) :
                      next \in {RenderRow(row, st, g, clicked, upstreams)}} :
                   row \in {Head(rows)}, rest \in {Tail(rows)}} : TRUE

\* the page below the Generate button, after its handler left gb
RenderPage(gb, event, upstreams) ==
    LET s2 == gb.session
        start == [cq |-> s2.current_question_to_answer, ca |-> s2.current_answer,
                  prompts |-> <<>>, buttons |-> {}, crashed |-> gb.crashed]
        clicked == IF event[1] = "answer" THEN <<event[2], event[3]>> ELSE <<>>
    IN  CHOOSE page \in
            {[session |-> [s2 EXCEPT !.current_question_to_answer = rl.cq,
                                     !.current_answer = rl.ca],
              rerun |-> [loaded |-> TRUE, event |-> event[1],
                         prompts |-> gb.prompts \o rl.prompts,
                         crashed |-> rl.crashed, buttons |-> rl.buttons]] :
                rl \in {RenderRows(rows, st, g, clicked, upstreams) :
                            rows \in {Rows(s2)}, st \in {start},
                            g \in {s2.ai_question_gen}}} : TRUE

\* one run of the script: event is <<"load">>, <<"key">>, <<"upload">>,
\* <<"jd">>, <<"generate">> or <<"answer", category, index>>
RunScript(s, env, w, event, fault, qup, upstreams) ==
    CHOOSE run \in
        UNION {{[session |-> page.session, environ |-> sb.environ, rerun |-> page.rerun] :
                  page \in {RenderPage(gb, event, upstreams) :
                              gb \in {GenerateBlock(s1, event = <<"generate">>, w.jd,
                                                    upstream) :
                                        s1 \in {UploadBlock(sb.session, w.file)},
                                        upstream \in {Upstream(qup)}}}} :
               sb \in {Sidebar(s, env, w.key, fault)}} : TRUE

----------------------------------------------------------------------------
(* The user's events *)

AppKeys == {"", "k1", "k2"}
AppFaults == {"none", "model"}

OnePage == [opens |-> TRUE, pages |-> <<[ok |-> TRUE, text |-> <<"r">>]>>]
TwoPages ==
    [opens |-> TRUE,
     pages |-> <<[ok |-> TRUE, text |-> <<"r">>], [ok |-> TRUE, text |-> <<"s">>]>>]

\* two files share a name; one cannot be read, one has no text
Files ==
    {[present |-> TRUE, name |-> "a.pdf", pdf |-> OnePage],
     [present |-> TRUE, name |-> "a.pdf", pdf |-> TwoPages],
     [present |-> TRUE, name |-> "b.pdf", pdf |-> NoPdf],
     [present |-> TRUE, name |-> "c.pdf", pdf |-> [opens |-> TRUE, pages |-> <<>>]]}

AppJobDescriptions == {<<>>, <<"j">>}

Plain == [present |-> FALSE, block_reason |-> ""]

\* what the service does when asked for questions: a payload of two
\* questions, one with a repeated question, a blocked prompt, a payload cut
\* short at the length limit, a RetryError
AppQuestionUpstreams ==
    {Descriptor(FALSE, NoException, Plain, 1, STOP, FALSE, TRUE, <<"P">>, "missing", "compact"),
     Descriptor(FALSE, NoException, Plain, 1, STOP, FALSE, TRUE, <<"P">>, "repeated", "fenced"),
     Descriptor(FALSE, NoException, [present |-> TRUE, block_reason |-> "SAFETY"], 0, STOP,
                FALSE, FALSE, <<>>, "prose", "compact"),
     Descriptor(FALSE, NoException, Plain, 1, 2, FALSE, TRUE, <<"P">>, "full", "truncated"),
     Descriptor(TRUE, [type |-> "GoogleAPIError", has_message |-> TRUE, has_code |-> FALSE],
                Plain, 0, STOP, FALSE, FALSE, <<>>, "prose", "compact")}

\* what it does when asked for an answer: a text, the text "loading", an
\* exception
AppAnswerUpstreams ==
    {Descriptor(FALSE, NoException, Plain, 1, STOP, FALSE, TRUE, <<"P">>, "prose", "compact"),
     Descriptor(FALSE, NoException, Plain, 1, STOP, FALSE, TRUE, <<"P">>, "loading", "compact"),
     Descriptor(TRUE, [type |-> "Exception", has_message |-> FALSE, has_code |-> FALSE],
                Plain, 0, STOP, FALSE, FALSE, <<>>, "prose", "compact")}

\* the inputs a run can depend on
FaultsFor(w) ==
    IF Sidebar(session, environ, w.key, "none").constructed THEN AppFaults ELSE {"none"}

QuestionUpstreamsFor(event) ==
    IF event = <<"generate">> THEN AppQuestionUpstreams ELSE {IdleDescriptor}

AnswerUpstreamsFor(event) ==
    IF event[1] = "answer"
       \/ (session.current_answer.present /\ session.current_answer.v = Loading)
    THEN AppAnswerUpstreams
    ELSE {IdleDescriptor}

\* the calls of generate_answer_for_question a run made
AnswerCalls(r) ==
    Cardinality({k \in 1..Len(r.rerun.prompts) : r.rerun.prompts[k].kind = "answer"})

\* the rerun an event causes, with the widgets as the event leaves them.  The
\* first call of generate_answer_for_question in the run gets u1, the calls
\* after it get u2 (chosen only when there are any).
Rerun(event, w) ==
    /\ \E fault \in FaultsFor(w), qup \in QuestionUpstreamsFor(event),
          u1 \in AnswerUpstreamsFor(event) :
          \E u2 \in AppAnswerUpstreams \cup {u1} :
            \E r \in {RunScript(session, environ, w, event, fault, qup, <<u1, u2>>)} :
                /\ u2 = u1 \/ AnswerCalls(r) > 1
                /\ session' = r.session
                /\ environ' = r.environ
                /\ rerun' = r.rerun
    /\ widgets' = w
    /\ UNCHANGED <<gen, pc, call>>

\* the page is opened
Load ==
    /\ ~rerun.loaded
    /\ Rerun(<<"load">>, widgets)

\* the user edits the API key input
EditKey ==
    /\ rerun.loaded
    /\ \E k \in AppKeys :
        /\ session.gemini_api_key # k
        /\ Rerun(<<"key">>, [widgets EXCEPT !.key = Opt(TRUE, k)])

\* the user uploads, replaces or removes the file
UploadFile ==
    /\ rerun.loaded
    /\ \E f \in Files \cup {NoFile} :
        /\ f # widgets.file
        /\ Rerun(<<"upload">>, [widgets EXCEPT !.file = f])

\* the user edits the job description
EditJobDescription ==
    /\ rerun.loaded
    /\ \E j \in AppJobDescriptions :
        /\ j # widgets.jd
        /\ Rerun(<<"jd">>, [widgets EXCEPT !.jd = j])

\* line 314: the button is disabled without a file, and with a gateway that
\* is not configured
ClickGenerate ==
    /\ rerun.loaded
    /\ widgets.file.present
    /\ ~(session.ai_question_gen.present /\ ~session.ai_question_gen.v.is_configured)
    /\ Rerun(<<"generate">>, widgets)

\* a Get Answer button the last run drew
ClickAnswer ==
    /\ rerun.loaded
    /\ \E b \in rerun.buttons : Rerun(<<"answer", b[1], b[2]>>, widgets)

NoRerun ==
    [loaded |-> FALSE, event |-> "none", prompts |-> <<>>, crashed |-> FALSE, buttons |-> {}]

NoWidgets == [key |-> Opt(FALSE, ""), file |-> NoFile, jd |-> <<>>]

----------------------------------------------------------------------------
(* The two state machines *)

NoCall ==
    [op |-> "none", args |-> <<>>, up |-> IdleDescriptor,
     out |-> Outcome("return", <<>>, <<>>, <<>>, "none")]

Construct ==
    /\ pc = "idle"
    /\ \E key \in Keys, fault \in Faults :
        /\ gen' = NewAIQuestionGenerator(key, fault)
        /\ call' = [op |-> "init", args |-> <<key, fault>>, up |-> IdleDescriptor,
                    out |-> Outcome("return", gen', <<>>, <<InitMessage(key, fault)>>,
                                    "constructed")]
    /\ pc' = "done"
    /\ UNCHANGED <<environ, widgets, session, rerun>>

CallGenerateQuestions ==
    /\ pc = "idle"
    /\ \E resume \in ResumeTexts, jd \in JobDescriptions, d \in Upstreams :
        call' = [op |-> "questions", args |-> <<resume, jd>>, up |-> d,
                 out |-> GenerateQuestionsFromText(gen, resume, jd, Upstream(d))]
    /\ pc' = "done"
    /\ UNCHANGED <<gen, environ, widgets, session, rerun>>

CallGenerateAnswer ==
    /\ pc = "idle"
    /\ \E question \in QuestionTexts, d \in Upstreams :
        call' = [op |-> "answer", args |-> <<question>>, up |-> d,
                 out |-> GenerateAnswerForQuestion(gen, question, Upstream(d))]
    /\ pc' = "done"
    /\ UNCHANGED <<gen, environ, widgets, session, rerun>>

CallExtract ==
    /\ pc = "idle"
    /\ \E pdf \in Pdfs :
        call' = [op |-> "extract", args |-> <<pdf>>, up |-> IdleDescriptor,
                 out |-> ExtractTextFromPdfBytes(pdf)]
    /\ pc' = "done"
    /\ UNCHANGED <<gen, environ, widgets, session, rerun>>

Return ==
    /\ pc = "done"
    /\ pc' = "idle"
    /\ call' = NoCall
    /\ UNCHANGED <<gen, environ, widgets, session, rerun>>

Init ==
    /\ gen = NewAIQuestionGenerator("", "none")
    /\ pc = "idle"
    /\ call = NoCall
    /\ environ = ""
    /\ widgets = NoWidgets
    /\ session = EmptySession
    /\ rerun = NoRerun

Next ==
    \/ Construct
    \/ CallGenerateQuestions
    \/ CallGenerateAnswer
    \/ CallExtract
    \/ Return

Spec == Init /\ [][Next]_vars

\* the script's session: the key may come from the environment (.env)
InitApp ==
    /\ gen = NewAIQuestionGenerator("", "none")
    /\ pc = "idle"
    /\ call = NoCall
    /\ environ \in {"", "k1"}
    /\ widgets = NoWidgets
    /\ session = EmptySession
    /\ rerun = NoRerun

NextApp ==
    \/ Load
    \/ EditKey
    \/ UploadFile
    \/ EditJobDescription
    \/ ClickGenerate
    \/ ClickAnswer

SpecApp == InitApp /\ [][NextApp]_vars

----------------------------------------------------------------------------
(* Properties of the gateway operations *)

Done(op) == pc = "done" /\ call.op = op

\* a generate_content call was made and answered with a response object
Answered(op) == Done(op) /\ call.out.prompts # <<>> /\ ~call.up.raises

\* the failure shape of a question set
IsFailureShape(v) ==
    /\ v.behavioral = JArr(<<>>)
    /\ v.project_specific = JArr(<<>>)
    /\ v.scenario_based = JArr(<<>>)
    /\ v.technical.t = "arr"
    /\ Len(v.technical.items) = 1
    /\ v.technical.items[1].t = "str"
    /\ StartsWith(v.technical.items[1].s, ErrorMarker)

FailureCauses ==
    {"not_configured", "prompt_blocked", "no_candidates", "atypical", "empty_text",
     "malformed_json", "google_api_error", "unexpected", "handler_raised"}

\* C1: every failure outcome of generate_questions_from_text (not configured,
\* prompt blocked, no candidates, atypical termination without text, empty
\* text, malformed JSON, JSON that is no object, Google API error, any other
\* exception) returns a value whose behavioral, project_specific and
\* scenario_based are empty lists and whose technical is a list of exactly one
\* string beginning with "Error:".
C1_FailureShape ==
    (Done("questions") /\ call.out.cause \in FailureCauses)
        => (call.out.ret = "return" /\ IsFailureShape(call.out.value))

\* C2: no gateway or adapter operation propagates a fault to its caller: the
\* constructor, generate_questions_from_text, generate_answer_for_question and
\* extract_text_from_pdf_bytes return normally whatever the credential and
\* whatever the service call returns or raises.
C2_NoFaultPropagates ==
    (pc = "done" /\ call.op \in {"init", "questions", "answer", "extract"})
        => call.out.ret = "return"

\* the classification generate_questions_from_text reaches for a response
QuestionsClass(response) ==
    LET c == QuestionsTry(response, <<>>).cause
    IN  IF c \in {"prompt_blocked", "no_candidates", "atypical", "empty_text"} THEN c
        ELSE "text"

\* the classification generate_answer_for_question reached
AnswerClass(out) == IF out.cause = "no_text" THEN "empty_text" ELSE out.cause

\* C3: generate_answer_for_question classifies every upstream response as
\* generate_questions_from_text does (prompt blocked, no candidates, atypical
\* termination, empty content, usable text): text of an atypically finished
\* candidate is returned, and text that is empty after trimming gives a
\* diagnostic, not an empty string.
C3_SameClassification ==
    Answered("answer")
        => /\ AnswerClass(call.out) = QuestionsClass(Response(call.up))
           /\ call.out.value # <<>>

\* the non-empty texts of a candidate's parts, in order
TextOf(candidate) ==
    IF candidate.content.present THEN JoinPartTexts(candidate.content.parts) ELSE <<>>

CarriesText(candidate) ==
    /\ candidate.content.present
    /\ \E k \in 1..Len(candidate.content.parts) :
          candidate.content.parts[k].has_text /\ candidate.content.parts[k].text # <<>>

Failure(msg) ==
    [technical |-> JArr(<<JStr(ErrorPrefix \o <<msg>>)>>), behavioral |-> JArr(<<>>),
     project_specific |-> JArr(<<>>), scenario_based |-> JArr(<<>>)]

ReasonLabel(v) ==
    IF v \in 0..5
    THEN <<"UNSPECIFIED", "STOP", "MAX_TOKENS", "SAFETY", "RECITATION", "OTHER">>[v + 1]
    ELSE "UNKNOWN (" \o ToString(v) \o ")"

\* C4: generate_questions_from_text classifies a response in a fixed priority
\* order, looking at the first candidate only: a block reason gives the
\* prompt-blocked failure (even with candidates); else no candidates gives the
\* no-candidates failure; else a first candidate that did not STOP and carries
\* no non-empty text gives the atypical-termination failure naming the reason's
\* label; else text that is empty after trimming gives the empty-content
\* failure; only otherwise does the text go on to JSON parsing.
C4_ClassificationPriority ==
    Answered("questions") =>
        LET fb == call.up.feedback
            out == call.out
            first == Response(call.up).candidates[1]
        IN  IF fb.present /\ fb.block_reason # ""
            THEN out.value = Failure("Prompt blocked by safety settings (Reason: "
                                     \o fb.block_reason \o ").")
            ELSE IF call.up.ncand = 0
            THEN out.value = Failure("No candidates in API response.")
            ELSE IF first.finish_reason # STOP /\ ~CarriesText(first)
            THEN out.value \in
                    {Failure("API request finished: " \o ReasonLabel(first.finish_reason)
                             \o "." \o suffix) : suffix \in {"", " Check safety ratings."}}
            ELSE IF Strip(TextOf(first)) = <<>>
            THEN out.value = Failure("Empty text content from API.")
            ELSE out.cause \in {"success", "malformed_json", "unexpected"}

C4_Witness ==
    /\ Answered("questions")
    /\ call.up.ncand = 2
    /\ call.up.finish = 2
    /\ call.up.shape = <<"N", "B">>
    /\ call.out.cause = "empty_text"

\* C5: a gateway that is not configured (no client, or is_configured false)
\* issues no call to the service: generate_questions_from_text returns the
\* not-configured failure structure, generate_answer_for_question the fixed
\* not-configured string; and generate_answer_for_question with an empty
\* question on a configured gateway returns its fixed string without a call.
C5_NoCallUnlessReady ==
    /\ (Done("questions") /\ (~gen.client \/ ~gen.is_configured))
          => /\ call.out.prompts = <<>>
             /\ call.out.ret = "return"
             /\ call.out.value = Failure("Gemini client not configured.")
    /\ (Done("answer") /\ (~gen.client \/ ~gen.is_configured))
          => /\ call.out.prompts = <<>>
             /\ call.out.value = <<"Gemini client not configured. Cannot generate answer.">>
    /\ (Done("answer") /\ gen.client /\ gen.is_configured /\ call.args[1] = <<>>)
          => /\ call.out.prompts = <<>>
             /\ call.out.value = <<"No question provided to generate an answer.">>

C5_Witness ==
    /\ Done("answer")
    /\ gen.client /\ ~gen.is_configured
    /\ call.args[1] # <<>>
    /\ call.up.ncand > 0
    /\ call.out.prompts = <<>>

\* the value of a key in a payload object, or the empty list
Expected(payload, key) ==
    IF \E k \in 1..Len(payload.items) : payload.items[k].s = key
    THEN payload.items[CHOOSE k \in 1..Len(payload.items) : payload.items[k].s = key].items[1]
    ELSE JArr(<<>>)

\* the response's text is one JSON object, whitespace or a fence around it
CarriesObject(d) ==
    /\ d.payload \in ObjectPayloadIds
    /\ d.style \in WellFormedStyles
    /\ Cardinality({k \in 1..Len(d.shape) : d.shape[k] = "P"}) = 1
    /\ d.present
    /\ d.ncand > 0
    /\ ~(d.feedback.present /\ d.feedback.block_reason # "")

\* C7: lenient decode: when the text parses as a JSON object, the result has
\* exactly the four keys technical, behavioral, project_specific and
\* scenario_based; each is the payload's value for that key, unchanged, when
\* the key is present and the empty list when it is absent; other keys are
\* dropped and no failure is reported.
C7_LenientDecode ==
    (Answered("questions") /\ CarriesObject(call.up)) =>
        LET payload == Payload(call.up.payload)
            v == call.out.value
        IN  /\ call.out.ret = "return"
            /\ DOMAIN v = {"technical", "behavioral", "project_specific", "scenario_based"}
            /\ v.technical = Expected(payload, KTechnical)
            /\ v.behavioral = Expected(payload, KBehavioral)
            /\ v.project_specific = Expected(payload, KProjectSpecific)
            /\ v.scenario_based = Expected(payload, KScenarioBased)

C7_Witness ==
    /\ Answered("questions")
    /\ CarriesObject(call.up)
    /\ call.up.payload = "extra"
    /\ call.up.style = "fenced"
    /\ call.out.value.technical = JArr(<<JStr(Question("1"))>>)
    /\ call.out.value.behavioral = JArr(<<>>)

Warned == \E k \in 1..Len(call.out.ui) : call.out.ui[k] = "warning"

\* C8 as stated: whenever generate_questions_from_text surfaces the
\* atypical-termination warning it returns data built from the content, not
\* the failure structure; and content of an atypically terminated candidate is
\* never used without the warning.
C8_PartialNeverFailure ==
    Done("questions") =>
        /\ Warned => call.out.cause = "success"
        /\ (Answered("questions") /\ call.up.finish # STOP /\ call.out.cause = "success")
              => Warned

\* C8 amended: after the warning the operation never returns the
\* atypical-termination failure but goes on to use the content: it returns
\* the decoded data when the content is a JSON object, and the empty-content,
\* malformed-JSON or unexpected-error failure structure otherwise; and content
\* of an atypically terminated candidate is never used without the warning.
C8_PartialAttempted ==
    Done("questions") =>
        /\ Warned =>
              /\ call.up.finish # STOP
              /\ call.out.cause \in {"success", "empty_text", "malformed_json", "unexpected"}
              /\ CarriesObject(call.up) =>
                    /\ call.out.cause = "success"
                    /\ call.out.value.technical = Expected(Payload(call.up.payload), KTechnical)
              /\ call.out.cause # "success" => IsFailureShape(call.out.value)
        /\ (Answered("questions") /\ call.up.finish # STOP /\ call.up.ncand > 0
              /\ ~(call.up.feedback.present /\ call.up.feedback.block_reason # "")
              /\ call.out.cause \in {"success", "empty_text", "malformed_json", "unexpected"})
              => Warned

C8_Witness ==
    /\ Done("questions")
    /\ Warned
    /\ call.up.finish = 2
    /\ call.up.payload = "full"
    /\ call.up.style = "truncated"
    /\ call.out.cause = "malformed_json"

\* C10: no generation request is issued with empty primary text:
\* generate_content is never called by generate_questions_from_text with an
\* empty resume_text_content, nor by generate_answer_for_question with an
\* empty question_text.
C10_NoEmptyPrimaryText ==
    pc = "done" =>
        \A k \in 1..Len(call.out.prompts) : call.out.prompts[k].primary # <<>>

\* the first candidate carries the text of one JSON object, once
CarriesOnce(d) ==
    /\ d.payload \in ObjectPayloadIds
    /\ Cardinality({k \in 1..Len(d.shape) : d.shape[k] = "P"}) = 1
    /\ d.present
    /\ d.ncand > 0
    /\ ~(d.feedback.present /\ d.feedback.block_reason # "")

\* the same response with the object's text T alone
Bare(d) == [d EXCEPT !.style = "compact"]

\* what json.loads is to be given: the trimmed text less one leading
\* marker and one trailing marker
Inner(d) ==
    LET T == Encode(Payload(d.payload), <<>>)
    IN  CASE d.style = "compact" -> T
          [] d.style = "spaced" -> Encode(Payload(d.payload), <<" ">>)
          [] d.style = "truncated" -> SubSeq(T, 1, Len(T) - 1)
          [] d.style = "fenced" -> <<"\n">> \o T \o <<"\n">>
          [] d.style = "tight" -> T
          [] d.style = "open_only" -> <<"\n">> \o T
          [] d.style = "close_only" -> T \o <<"\n">>
          [] d.style = "twice" -> FenceOpen \o T \o FenceClose

\* C11: code-fence stripping is transparent: a response whose trimmed text is
\* a JSON object text T between the leading json marker and the trailing
\* marker gives the result of a response whose text is T alone; only a
\* leading marker (7 characters) and a trailing marker (3 characters) of the
\* trimmed text are removed, each on its own and at most once, and text
\* without fences reaches the parser as it is.
C11_FenceTransparent ==
    (Answered("questions") /\ CarriesOnce(call.up)) =>
        LET d == call.up
            alone == GenerateQuestionsFromText(gen, call.args[1], call.args[2],
                                               Upstream(Bare(d)))
        IN  /\ StripFences(TextOf(Response(d).candidates[1])) = Inner(d)
            /\ d.style \in {"fenced", "tight", "open_only", "close_only"}
                  => /\ call.out.ret = alone.ret
                     /\ call.out.value = alone.value
                     /\ call.out.cause = "success"
            /\ d.style = "twice" => call.out.cause = "malformed_json"

C11_Witness ==
    /\ Answered("questions")
    /\ CarriesOnce(call.up)
    /\ call.up.style = "fenced"
    /\ call.up.payload = "full"
    /\ call.up.shape = <<"B", "P", "B">>
    /\ call.out.cause = "success"
    /\ call.out.value.technical = JArr(<<JStr(Question("1")), JStr(Question("2"))>>)

----------------------------------------------------------------------------
(* Properties of the application *)

\* the generate_content calls the last rerun of the script issued
CallsIssued == Len(rerun.prompts)

\* C6: every user-triggered action (a rerun caused by an upload, a click on
\* Generate Interview Questions or a click on a Get Answer button) issues at
\* most one generate_content call, after any sequence of earlier actions and
\* also when a question text is displayed more than once.
C6_AtMostOneCall ==
    (rerun.loaded /\ rerun.event \in {"upload", "generate", "answer"})
        => CallsIssued <= 1

\* C9: after any sequence of edits of the API key input, a gateway held in
\* the session was constructed with the credential now entered, and none is
\* held when no credential is entered.
C9_GatewayMatchesCredential ==
    (rerun.loaded /\ session.ai_question_gen.present)
        => /\ session.gemini_api_key # ""
           /\ session.ai_question_gen.v.gemini_api_key = session.gemini_api_key

\* the questions of the stored generated_questions, over all four lists
StoredQuestions ==
    IF ~session.generated_questions.present THEN {}
    ELSE UNION {IF session.generated_questions.v[cat].t = "arr"
                THEN {session.generated_questions.v[cat].items[k] :
                        k \in 1..Len(session.generated_questions.v[cat].items)}
                ELSE {} :
                cat \in {"technical", "behavioral", "project_specific", "scenario_based"}}

\* C12: after any sequence of uploads, question generations and answer
\* requests the session state is consistent: the stored resume_text is the
\* extraction of the bytes of the file now uploaded, stored
\* generated_questions were generated from the stored resume_text, and a
\* stored current_question_to_answer is one of the stored questions, with
\* current_answer stored only beside it.
C12_SessionConsistent ==
    rerun.loaded =>
        /\ widgets.file.present
              => session.resume_text = ExtractTextFromPdfBytes(widgets.file.pdf).value
        /\ session.generated_questions.present
              => /\ session.questions_source.present
                 /\ ~session.resume_text.none
                 /\ session.questions_source.v = session.resume_text.text
        /\ session.current_question_to_answer.present
              => session.current_question_to_answer.v \in StoredQuestions
        /\ session.current_answer.present => session.current_question_to_answer.present

====
